---- MODULE Spec2Model ----
(***************************************************************************)
(* A model of the C10 decimal clock: the c10time library (Duration,        *)
(* SystemTime, the epochs module in its formula and table variants) and    *)
(* the c10clock terminal program (the UI render loop and its drift         *)
(* compensated sleep).                                                     *)
(*                                                                         *)
(* Rust's u64 / i64 / usize values of the library do not fit TLC's 32-bit  *)
(* integers, so they are held as unbounded naturals: a                     *)
(* sequence of base-1000 limbs, least significant first, without leading   *)
(* zero limbs.  Lit(<<1, 672, 531, 200>>) is 1,672,531,200.                *)
(***************************************************************************)
EXTENDS Integers, Sequences, FiniteSets, TLC

----------------------------------------------------------------------------
(* Unbounded naturals: the arithmetic of u64 / i64 / usize / u128.         *)

Base == 1000

RECURSIVE Norm(_)
Norm(s) ==
    IF s = <<>> THEN <<>>
    ELSE IF s[Len(s)] = 0 THEN Norm(SubSeq(s, 1, Len(s) - 1))
    ELSE s

RECURSIVE BigOf(_)
BigOf(n) == IF n = 0 THEN <<>> ELSE <<n % Base>> \o BigOf(n \div Base)

RECURSIVE Reverse(_)
Reverse(s) == IF s = <<>> THEN <<>> ELSE Reverse(Tail(s)) \o <<Head(s)>>

Lit(groups) == Norm(Reverse(groups))

RECURSIVE BigToInt(_)
BigToInt(a) == IF a = <<>> THEN 0 ELSE Head(a) + Base * BigToInt(Tail(a))

Limb(a, i) == IF i <= Len(a) THEN a[i] ELSE 0

RECURSIVE CmpFrom(_, _, _)
CmpFrom(a, b, i) ==
    IF i = 0 THEN 0
    ELSE IF a[i] < b[i] THEN -1
    ELSE IF a[i] > b[i] THEN 1
    ELSE CmpFrom(a, b, i - 1)

BigCmp(a, b) ==
    IF Len(a) < Len(b) THEN -1
    ELSE IF Len(a) > Len(b) THEN 1
    ELSE CmpFrom(a, b, Len(a))

BigLess(a, b) == BigCmp(a, b) < 0
BigLeq(a, b) == BigCmp(a, b) <= 0

RECURSIVE AddCarry(_, _, _)
AddCarry(a, b, c) ==
    IF a = <<>> /\ b = <<>> THEN (IF c = 0 THEN <<>> ELSE <<c>>)
    ELSE LET s == Limb(a, 1) + Limb(b, 1) + c
             ta == IF a = <<>> THEN <<>> ELSE Tail(a)
             tb == IF b = <<>> THEN <<>> ELSE Tail(b)
         IN <<s % Base>> \o AddCarry(ta, tb, s \div Base)

BigAdd(a, b) == AddCarry(a, b, 0)

RECURSIVE SubBorrow(_, _, _)
SubBorrow(a, b, c) ==
    IF a = <<>> THEN <<>>
    ELSE LET d == a[1] - Limb(b, 1) - c
             tb == IF b = <<>> THEN <<>> ELSE Tail(b)
         IN IF d < 0 THEN <<d + Base>> \o SubBorrow(Tail(a), tb, 1)
            ELSE <<d>> \o SubBorrow(Tail(a), tb, 0)

\* a - b for a >= b
BigSub(a, b) == Norm(SubBorrow(a, b, 0))

RECURSIVE MulLimb(_, _, _)
MulLimb(a, k, c) ==
    IF a = <<>> THEN BigOf(c)
    ELSE LET p == a[1] * k + c
         IN <<p % Base>> \o MulLimb(Tail(a), k, p \div Base)

RECURSIVE BigMul(_, _)
BigMul(a, b) ==
    IF a = <<>> \/ b = <<>> THEN <<>>
    ELSE LET rest == BigMul(a, Tail(b))
         IN BigAdd(Norm(MulLimb(a, b[1], 0)),
                   IF rest = <<>> THEN <<>> ELSE <<0>> \o rest)

\* the greatest q in lo..hi with b * q <= r, given b * lo <= r
RECURSIVE QuotLimb(_, _, _, _)
QuotLimb(r, b, lo, hi) ==
    IF lo = hi THEN lo
    ELSE LET mid == (lo + hi + 1) \div 2
         IN IF BigLeq(Norm(MulLimb(b, mid, 0)), r)
            THEN QuotLimb(r, b, mid, hi)
            ELSE QuotLimb(r, b, lo, mid - 1)

\* long division of the limbs a[1..i] by b (b > 0): <<quotient, remainder>>
RECURSIVE DivFrom(_, _, _, _)
DivFrom(a, b, i, rem) ==
    IF i = 0 THEN <<<<>>, rem>>
    ELSE LET r == Norm(<<a[i]>> \o rem)
             q == QuotLimb(r, b, 0, Base - 1)
             rest == DivFrom(a, b, i - 1, BigSub(r, Norm(MulLimb(b, q, 0))))
         IN <<rest[1] \o <<q>>, rest[2]>>

BigDiv(a, b) == Norm(DivFrom(a, b, Len(a), <<>>)[1])
BigMod(a, b) == DivFrom(a, b, Len(a), <<>>)[2]

RECURSIVE BigPow(_, _)
BigPow(a, n) == IF n = 0 THEN BigOf(1) ELSE BigMul(a, BigPow(a, n - 1))

----------------------------------------------------------------------------
(* c10time/src/epochs.rs: the formula variant of the epoch lookup.         *)
(*                                                                         *)
(* A while loop is a recursion, one level for each iteration; x_run runs   *)
(* at most LoopBlock iterations of loop x and x_loop runs x_run until the  *)
(* loop's condition fails, which keeps the evaluation shallow.             *)

LoopBlock == 32

is_leap(year) == year % 4 = 0 /\ (year % 100 # 0 \/ year % 400 = 0)

RECURSIVE year_to_days_run(_, _, _)
year_to_days_run(days, year, block) ==
    IF block > 0 /\ year > 1970
    THEN year_to_days_run(days + 365 + (IF is_leap(year) THEN 1 ELSE 0), year - 1, block - 1)
    ELSE <<days, year>>

RECURSIVE year_to_days_loop(_, _)
year_to_days_loop(days, year) ==
    IF year > 1970
    THEN LET s == year_to_days_run(days, year, LoopBlock) IN year_to_days_loop(s[1], s[2])
    ELSE days

year_to_days(year) == year_to_days_loop(0, year)

year_to_seconds(year) == BigMul(BigOf(year_to_days(year)), BigOf(24 * 60 * 60))

year_to_ticks(year) == BigMul(BigOf(year_to_days(year)), BigOf(100 * 100 * 100))

RECURSIVE year_from_seconds_run(_, _, _)
year_from_seconds_run(guess, secs, block) ==
    IF block > 0 /\ BigLess(year_to_seconds(guess + 1), secs)
    THEN year_from_seconds_run(guess + 1, secs, block - 1)
    ELSE guess

RECURSIVE year_from_seconds_loop(_, _)
year_from_seconds_loop(guess, secs) ==
    IF BigLess(year_to_seconds(guess + 1), secs)
    THEN year_from_seconds_loop(year_from_seconds_run(guess, secs, LoopBlock), secs)
    ELSE guess

year_from_seconds(secs) == year_from_seconds_loop(1970, secs)

RECURSIVE year_from_ticks_run(_, _, _)
year_from_ticks_run(guess, ticks, block) ==
    IF block > 0 /\ BigLess(year_to_ticks(guess + 1), ticks)
    THEN year_from_ticks_run(guess + 1, ticks, block - 1)
    ELSE guess

RECURSIVE year_from_ticks_loop(_, _)
year_from_ticks_loop(guess, ticks) ==
    IF BigLess(year_to_ticks(guess + 1), ticks)
    THEN year_from_ticks_loop(year_from_ticks_run(guess, ticks, LoopBlock), ticks)
    ELSE guess

\* the loop's guess taken one year too far
year_from_ticks_next_year(ticks) == year_from_ticks_loop(1970, ticks) + 1

year_from_ticks(ticks) == year_from_ticks_loop(1970, ticks)

----------------------------------------------------------------------------
(* src/epochs.rs: the table variant of the epoch lookup.  A panic (the     *)
(* assert, an index out of bounds, the explicit panic!) returns Panic      *)
(* where a tick or second count is due and PanicYear where a year is.      *)

Panic == <<-1>>
PanicYear == -1

EPOCH_SECONDS == <<
    BigOf(0), BigOf(31536000), BigOf(63072000), BigOf(94694400),
    BigOf(126230400), BigOf(157766400), BigOf(189302400), BigOf(220924800),
    BigOf(252460800), BigOf(283996800), BigOf(315532800), BigOf(347155200),
    BigOf(378691200), BigOf(410227200), BigOf(441763200), BigOf(473385600),
    BigOf(504921600), BigOf(536457600), BigOf(567993600), BigOf(599616000),
    BigOf(631152000), BigOf(662688000), BigOf(694224000), BigOf(725846400),
    BigOf(757382400), BigOf(788918400), BigOf(820454400), BigOf(852076800),
    BigOf(883612800), BigOf(915148800), BigOf(946684800), BigOf(978307200),
    BigOf(1009843200), BigOf(1041379200), BigOf(1072915200), BigOf(1104537600),
    BigOf(1136073600), BigOf(1167609600), BigOf(1199145600), BigOf(1230768000),
    BigOf(1262304000), BigOf(1293840000), BigOf(1325376000), BigOf(1356998400),
    BigOf(1388534400), BigOf(1420070400), BigOf(1451606400), BigOf(1483228800),
    BigOf(1514764800), BigOf(1546300800), BigOf(1577836800), BigOf(1609459200),
    BigOf(1640995200), BigOf(1672531200), BigOf(1704067200), BigOf(1735689600),
    BigOf(1767225600), BigOf(1798761600), BigOf(1830297600), BigOf(1861920000),
    BigOf(1893456000), BigOf(1924992000), BigOf(1956528000), BigOf(1988150400),
    BigOf(2019686400), BigOf(2051222400), BigOf(2082758400), BigOf(2114380800),
    BigOf(2145916800), Lit(<<2, 177, 452, 800>>)
>>

table_year_to_seconds(year) ==
    IF year < 1970 \/ ~(year - 1970 < Len(EPOCH_SECONDS)) THEN Panic
    ELSE EPOCH_SECONDS[(year - 1970) + 1]

table_year_to_ticks(year) ==
    IF table_year_to_seconds(year) = Panic THEN Panic
    ELSE BigDiv(BigMul(table_year_to_seconds(year), BigOf(1000000)), BigOf(86400))

\* EPOCH_SECONDS[index + 1] is the model's EPOCH_SECONDS[index + 2]: Rust
\* indexes from 0, a sequence from 1.  Reading the table past its end panics
\* before the loop's own check of the index can.
RECURSIVE year_from_secs_loop(_, _)
year_from_secs_loop(index, secs) ==
    IF ~(index + 1 < Len(EPOCH_SECONDS)) THEN PanicYear
    ELSE IF BigLess(EPOCH_SECONDS[index + 2], secs)
    THEN IF index + 1 >= Len(EPOCH_SECONDS) THEN PanicYear
         ELSE year_from_secs_loop(index + 1, secs)
    ELSE index + 1970

year_from_secs(secs) ==
    year_from_secs_loop(BigToInt(BigDiv(secs, BigPow(BigOf(2), 25))), secs)

----------------------------------------------------------------------------
(* c10time/src/lib.rs: Duration.                                           *)

\* u64::MAX, 2^64 - 1
U64_MAX == Lit(<<18, 446, 744, 073, 709, 551, 615>>)

\* Option<u64>: None is Panic's value, which no tick count has
None == Panic

checked_mul(a, b) ==
    LET p == BigMul(a, b) IN IF BigLeq(p, U64_MAX) THEN p ELSE None

\* u64::wrapping_add in place of checked_add
wrapping_add(a, b) == BigMod(BigAdd(a, b), BigAdd(U64_MAX, BigOf(1)))

checked_add(a, b) ==
    LET t == BigAdd(a, b) IN IF BigLeq(t, U64_MAX) THEN t ELSE None

\* Duration::new: the ticks of the Duration, or Panic
Duration_new(intervals, centivals, ticks) ==
    LET iticks == checked_mul(intervals, BigOf(100 * 100))
    IN  IF iticks = None THEN Panic
        ELSE LET ticks1 == checked_add(ticks, iticks)
             IN  IF ticks1 = None THEN Panic
                 ELSE LET cticks == checked_mul(centivals, BigOf(100))
                      IN  IF cticks = None THEN Panic
                          ELSE LET ticks2 == checked_add(ticks1, cticks)
                               IN  IF ticks2 = None THEN Panic ELSE ticks2

\* Duration::time_components and SystemTime::time_components (the same body):
\* <<ints, cents, ticks>>
time_components(self_ticks) ==
    LET ticks == BigMod(self_ticks, BigOf(100))
        cents == BigMod(BigDiv(self_ticks, BigOf(100)), BigOf(100))
        ints == BigMod(BigDiv(self_ticks, BigOf(100 * 100)), BigOf(100))
    IN  <<ints, cents, ticks>>

----------------------------------------------------------------------------
(* c10time/src/lib.rs: SystemTime.                                         *)

\* SystemTime::now, the conversion of the timespec read: secs and nsecs are
\* i64 and stay far below 2^63 for the years of the model
now_ticks(secs, nsecs) ==
    LET sec_ticks == BigDiv(BigMul(secs, BigOf(625)), BigOf(54))
        nsec_ticks == BigDiv(BigMul(nsecs, BigOf(625)), Lit(<<54, 000, 000, 000>>))
    IN  BigAdd(sec_ticks, nsec_ticks)

\* src/lib.rs (the table variant's crate): SystemTime::now
table_now_ticks(secs, nsecs) ==
    BigAdd(BigMul(BigMul(secs, BigOf(100)), BigOf(100)),
           BigDiv(BigMul(nsecs, BigOf(86400)), BigOf(1000000)))

\* the u64 subtraction self.ticks - year_to_ticks(year): when it underflows a
\* debug build panics and a release build wraps; underflow records that it
\* did and diff is the wrapped value
sub_u64(a, b) ==
    IF BigLess(a, b)
    THEN [underflow |-> TRUE, diff |-> BigSub(BigAdd(a, BigAdd(U64_MAX, BigOf(1))), b)]
    ELSE [underflow |-> FALSE, diff |-> BigSub(a, b)]

\* SystemTime::date_components: year, decaday and day, and whether the
\* subtraction underflowed
date_components(self_ticks) ==
    LET year == year_from_ticks(self_ticks)
        into == sub_u64(self_ticks, year_to_ticks(year))
        dayinyear == BigDiv(into.diff, BigOf(1000000))
        decaday == BigAdd(BigDiv(dayinyear, BigOf(10)), BigOf(1))
        day == BigAdd(BigMod(dayinyear, BigOf(10)), BigOf(1))
    IN  [year |-> year, decaday |-> decaday, day |-> day, underflow |-> into.underflow]

----------------------------------------------------------------------------
(* c10clock/src/main.rs: UI::sleep's arithmetic, in i64 nanoseconds.       *)

\* GOAL.as_nanos(): Duration::from_micros(24 * 60 * 60)
GOAL == 24 * 60 * 60 * 1000

\* Rust's integer division truncates toward zero
div_i64(a, b) == IF a >= 0 THEN a \div b ELSE 0 - ((0 - a) \div b)

\* GOAL.as_micros() in place of GOAL.as_nanos()
drift_of_micros(elapsed) == elapsed - (GOAL \div 1000)

drift_of(elapsed) == elapsed - GOAL

RECURSIVE sum_i64(_)
sum_i64(s) == IF s = <<>> THEN 0 ELSE Head(s) + sum_i64(Tail(s))

avg_drift_of(drifts) == div_i64(sum_i64(drifts), Len(drifts))

computed_sleep_of(avg) == GOAL - avg

\* a cast, computed_sleep as u64, in place of try_into().unwrap()
try_into_unchecked(computed_sleep) == TRUE

\* computed_sleep.try_into(): Ok, a u64, unless computed_sleep is negative
try_into_ok(computed_sleep) == computed_sleep >= 0

----------------------------------------------------------------------------
(* State.                                                                  *)
(* ep_*:  one call of a function of the epochs module: its argument and,   *)
(*        once it has returned, its result.                                *)
(* dur_*: one Duration: the arguments of Duration::new, the ticks of the   *)
(*        Duration made and the components extracted from it.              *)
(* st_*:  one SystemTime of either crate: the timespec SystemTime::now     *)
(*        read, its ticks and what Display::fmt computed from them.        *)
(* ui_*:  the c10clock process: the position of main, the terminal's       *)
(*        cursor, the fields of UI (clk_time in ns since UI::new), what    *)
(*        the last UI::sleep computed, and the history of the measurements *)
(*        (ui_exact, ui_anomaly).                                          *)

VARIABLES ep_fn, ep_arg, ep_done, ep_ret,
          dur_args, dur_pc, dur_ticks, dur_comps,
          st_crate, st_secs, st_nsecs, st_pc, st_ticks, st_time, st_date,
          ui_pc, ui_exit, ui_cursor, ui_dropped, clk_time, drifts_ns, drifts_idx,
          ui_avg_drift, ui_computed_sleep, ui_slept_ns, ui_sleeps, ui_cycles,
          ui_exact, ui_anomaly

ep_vars == <<ep_fn, ep_arg, ep_done, ep_ret>>

dur_vars == <<dur_args, dur_pc, dur_ticks, dur_comps>>

st_vars == <<st_crate, st_secs, st_nsecs, st_pc, st_ticks, st_time, st_date>>

ui_vars == <<ui_pc, ui_exit, ui_cursor, ui_dropped, clk_time, drifts_ns, drifts_idx,
             ui_avg_drift, ui_computed_sleep, ui_slept_ns, ui_sleeps, ui_cycles,
             ui_exact, ui_anomaly>>

vars == <<ep_vars, dur_vars, st_vars, ui_vars>>

NoValue == <<>>

----------------------------------------------------------------------------
(* Bounds of the inputs.                                                   *)

MaxYear == 2101

Years == 1970..MaxYear

\* tick counts around the first tick of every year: the tick before it, the
\* first tick, the next one, the last tick of its first day and a day in it
TickOffsets == {0, 1, 999999, 200000000}

TickArgs ==
    {BigAdd(year_to_ticks(y), BigOf(o)) : y \in Years, o \in TickOffsets}
        \cup {BigSub(year_to_ticks(y), BigOf(1)) : y \in Years \ {1970}}

SecondOffsets == {0, 250000}

SecondArgs ==
    {BigAdd(year_to_seconds(y), BigOf(o)) : y \in Years, o \in SecondOffsets}
        \cup {BigSub(year_to_seconds(y), BigOf(1)) : y \in Years \ {1970}}

\* the years of the table, and second counts around their first second
TableYears == 1970..(1970 + Len(EPOCH_SECONDS) - 1)

TableSecondArgs ==
    {BigAdd(EPOCH_SECONDS[i], BigOf(o)) : i \in 1..(Len(EPOCH_SECONDS) - 1), o \in SecondOffsets}
        \cup {BigSub(EPOCH_SECONDS[i], BigOf(1)) : i \in 2..Len(EPOCH_SECONDS)}

\* the components given to Duration::new: small ones, ones that reach the
\* next unit or a day, and ones at the edge of u64
MaxSmall == 2

ComponentArgs ==
    {BigOf(n) : n \in 0..MaxSmall}
        \cup {BigOf(99), BigOf(100), BigOf(150), BigOf(12345)}
        \cup {BigDiv(U64_MAX, BigOf(100 * 100)),
              BigAdd(BigDiv(U64_MAX, BigOf(100 * 100)), BigOf(1)),
              BigDiv(U64_MAX, BigOf(100)),
              BigAdd(BigDiv(U64_MAX, BigOf(100)), BigOf(1)),
              BigSub(U64_MAX, BigOf(100)),
              U64_MAX}

\* the timespec read by SystemTime::now: seconds around the first second of a
\* year (a day before it, a second before it, a second and a day after it)
ReadingYears ==
    {1970, 1971, 1972, 1973, 1999, 2000, 2001, 2023, 2024, 2038, 2039, 2099, 2100, MaxYear}

ReadingSecs ==
    {BigAdd(year_to_seconds(y), BigOf(o)) : y \in ReadingYears, o \in {0, 1, 86400}}
        \cup {BigSub(year_to_seconds(y), BigOf(o)) :
                y \in ReadingYears \ {1970}, o \in {1, 86400, 86401}}

ReadingNsecs ==
    {BigOf(0), BigOf(1), BigOf(86399999), BigOf(86400000), BigOf(500000000), BigOf(999999999)}

\* the elapsed times UI::sleep measures, as drifts from GOAL: none (elapsed
\* 0 ns), a jitter of a few ns either way, and the drifts around the one
\* whose mean over the ring reaches GOAL
Jitter == 7

DriftArgs == {0 - GOAL, 0 - Jitter, 0, Jitter, 4 * GOAL + 3, 4 * GOAL + 4}

ElapsedArgs == {GOAL + d : d \in DriftArgs}

\* the render loop runs forever: the model stops it after MaxCycles cycles
MaxCycles == 6

----------------------------------------------------------------------------
(* The epochs module: a call is chosen at Init, and the action of the      *)
(* function called computes what it returns.                               *)

EpInit ==
    /\ \/ ep_fn \in {"year_to_days", "year_to_seconds", "year_to_ticks"} /\ ep_arg \in Years
       \/ ep_fn = "year_from_ticks" /\ ep_arg \in TickArgs
       \/ ep_fn = "year_from_seconds" /\ ep_arg \in SecondArgs
       \/ ep_fn \in {"table_year_to_seconds", "table_year_to_ticks"}
            /\ ep_arg \in TableYears \cup {1970 + Len(EPOCH_SECONDS)}
       \/ ep_fn = "year_from_secs" /\ ep_arg \in TableSecondArgs
    /\ ep_done = FALSE
    /\ ep_ret = NoValue

EpIdle == ep_fn = "none" /\ ep_arg = NoValue /\ ep_done = TRUE /\ ep_ret = NoValue

EpReturn(fn, ret) ==
    /\ ep_fn = fn
    /\ ~ep_done
    /\ ep_done' = TRUE
    /\ ep_ret' = ret
    /\ UNCHANGED <<ep_fn, ep_arg, dur_vars, st_vars, ui_vars>>

YearToDays == EpReturn("year_to_days", year_to_days(ep_arg))

YearToSeconds == EpReturn("year_to_seconds", year_to_seconds(ep_arg))

YearToTicks == EpReturn("year_to_ticks", year_to_ticks(ep_arg))

YearFromSeconds == EpReturn("year_from_seconds", year_from_seconds(ep_arg))

YearFromTicks == EpReturn("year_from_ticks", year_from_ticks(ep_arg))

TableYearToSeconds == EpReturn("table_year_to_seconds", table_year_to_seconds(ep_arg))

TableYearToTicks == EpReturn("table_year_to_ticks", table_year_to_ticks(ep_arg))

YearFromSecs == EpReturn("year_from_secs", year_from_secs(ep_arg))

EpNext ==
    \/ YearToDays
    \/ YearToSeconds
    \/ YearToTicks
    \/ YearFromSeconds
    \/ YearFromTicks
    \/ TableYearToSeconds
    \/ TableYearToTicks
    \/ YearFromSecs

----------------------------------------------------------------------------
(* Duration: Duration::new on the arguments chosen at Init, then           *)
(* Duration::time_components on the Duration made.                         *)

DurInit ==
    /\ dur_args \in ComponentArgs \X ComponentArgs \X ComponentArgs
    /\ dur_pc = "new"
    /\ dur_ticks = NoValue
    /\ dur_comps = NoValue

DurIdle ==
    /\ dur_args = NoValue
    /\ dur_pc = "idle"
    /\ dur_ticks = NoValue
    /\ dur_comps = NoValue

DurationNew ==
    /\ dur_pc = "new"
    /\ LET made == Duration_new(dur_args[1], dur_args[2], dur_args[3])
       IN  IF made = Panic
           THEN dur_pc' = "panicked" /\ dur_ticks' = dur_ticks
           ELSE dur_pc' = "made" /\ dur_ticks' = made
    /\ UNCHANGED <<dur_args, dur_comps, ep_vars, st_vars, ui_vars>>

DurationTimeComponents ==
    /\ dur_pc = "made"
    /\ dur_comps' = time_components(dur_ticks)
    /\ dur_pc' = "decomposed"
    /\ UNCHANGED <<dur_args, dur_ticks, ep_vars, st_vars, ui_vars>>

DurNext == DurationNew \/ DurationTimeComponents

----------------------------------------------------------------------------
(* SystemTime, of the crate chosen at Init: SystemTime::now, then what     *)
(* Display::fmt computes.  now reads the timespec back through a pointer   *)
(* to a MaybeUninit temporary that is gone by then: what it reads is taken *)
(* to be any timespec of the inputs.                                       *)

StInit ==
    /\ st_crate \in {"c10time", "c10"}
    /\ st_pc = "now"
    /\ st_secs = NoValue
    /\ st_nsecs = NoValue
    /\ st_ticks = NoValue
    /\ st_time = NoValue
    /\ st_date = NoValue

StIdle ==
    /\ st_crate = "none"
    /\ st_pc = "idle"
    /\ st_secs = NoValue
    /\ st_nsecs = NoValue
    /\ st_ticks = NoValue
    /\ st_time = NoValue
    /\ st_date = NoValue

Sampled(secs, nsecs, ticks) ==
    /\ st_pc = "now"
    /\ st_secs' = secs
    /\ st_nsecs' = nsecs
    /\ st_ticks' = ticks
    /\ st_pc' = "sampled"
    /\ UNCHANGED <<st_crate, st_time, st_date, ep_vars, dur_vars, ui_vars>>

Now ==
    /\ st_crate = "c10time"
    /\ \E secs \in ReadingSecs, nsecs \in ReadingNsecs :
            Sampled(secs, nsecs, now_ticks(secs, nsecs))

TableNow ==
    /\ st_crate = "c10"
    /\ \E secs \in ReadingSecs, nsecs \in ReadingNsecs :
            Sampled(secs, nsecs, table_now_ticks(secs, nsecs))

\* clock_gettime returned an errno: panic!
NowFails ==
    /\ st_pc = "now"
    /\ st_pc' = "panicked"
    /\ UNCHANGED <<st_crate, st_secs, st_nsecs, st_ticks, st_time, st_date,
                   ep_vars, dur_vars, ui_vars>>

Fmt ==
    /\ st_crate = "c10time"
    /\ st_pc = "sampled"
    /\ st_time' = time_components(st_ticks)
    /\ st_date' = date_components(st_ticks)
    /\ st_pc' = "shown"
    /\ UNCHANGED <<st_crate, st_secs, st_nsecs, st_ticks, ep_vars, dur_vars, ui_vars>>

TableFmt ==
    /\ st_crate = "c10"
    /\ st_pc = "sampled"
    /\ st_time' = time_components(st_ticks)
    /\ st_pc' = "shown"
    /\ UNCHANGED <<st_crate, st_secs, st_nsecs, st_ticks, st_date, ep_vars, dur_vars, ui_vars>>

\* the table variant's crate: date_components is unimplemented!()
TableDateComponents ==
    /\ st_crate = "c10"
    /\ st_pc = "sampled"
    /\ st_pc' = "panicked"
    /\ UNCHANGED <<st_crate, st_secs, st_nsecs, st_ticks, st_time, st_date,
                   ep_vars, dur_vars, ui_vars>>

StNext ==
    \/ Now
    \/ TableNow
    \/ NowFails
    \/ Fmt
    \/ TableFmt
    \/ TableDateComponents

----------------------------------------------------------------------------
(* c10clock: main.  ui_pc is where main is: "new" before UI::new, "render" *)
(* at the top of the loop of UI::run, "sleep" at its call of UI::sleep,    *)
(* "ended" once the process is gone; ui_exit says how it ended.            *)

UiInit ==
    /\ ui_pc = "new"
    /\ ui_exit = "none"
    /\ ui_cursor = "shown"
    /\ ui_dropped = FALSE
    /\ clk_time = 0
    /\ drifts_ns = <<0, 0, 0, 0>>
    /\ drifts_idx = 0
    /\ ui_avg_drift = 0
    /\ ui_computed_sleep = 0
    /\ ui_slept_ns = 0
    /\ ui_sleeps = 0
    /\ ui_cycles = 0
    /\ ui_exact = TRUE
    /\ ui_anomaly = <<>>

UiIdle ==
    /\ ui_pc = "idle"
    /\ ui_exit = "none"
    /\ ui_cursor = "shown"
    /\ ui_dropped = FALSE
    /\ clk_time = 0
    /\ drifts_ns = <<0, 0, 0, 0>>
    /\ drifts_idx = 0
    /\ ui_avg_drift = 0
    /\ ui_computed_sleep = 0
    /\ ui_slept_ns = 0
    /\ ui_sleeps = 0
    /\ ui_cycles = 0
    /\ ui_exact = TRUE
    /\ ui_anomaly = <<>>

sleep_vars == <<clk_time, drifts_ns, drifts_idx, ui_avg_drift, ui_computed_sleep, ui_slept_ns,
                ui_sleeps, ui_cycles, ui_exact, ui_anomaly>>

\* UI::new: the cursor is hidden
UINew ==
    /\ ui_pc = "new"
    /\ ui_cursor' = "hidden"
    /\ ui_pc' = "render"
    /\ UNCHANGED <<ui_exit, ui_dropped, sleep_vars, ep_vars, dur_vars, st_vars>>

\* UI::new: execute(cursor::Hide) fails and unwrap panics; there is no UI yet
UINewPanics ==
    /\ ui_pc = "new"
    /\ ui_pc' = "ended"
    /\ ui_exit' = "panic"
    /\ UNCHANGED <<ui_cursor, ui_dropped, sleep_vars, ep_vars, dur_vars, st_vars>>

\* main's ui goes out of scope, by main's return or by a panic's unwinding:
\* Drop for UI runs, and shows the cursor unless its own execute fails
Dropped(exit, show_ok) ==
    /\ ui_pc' = "ended"
    /\ ui_exit' = exit
    /\ ui_dropped' = TRUE
    /\ ui_cursor' = IF show_ok THEN "shown" ELSE ui_cursor

\* one pass of the loop of UI::run up to its call of UI::sleep
Render ==
    /\ ui_pc = "render"
    /\ ui_cycles < MaxCycles
    /\ ui_pc' = "sleep"
    /\ UNCHANGED <<ui_exit, ui_cursor, ui_dropped, sleep_vars, ep_vars, dur_vars, st_vars>>

\* an execute, the writeln! or the flush fails: run returns the error by ?,
\* main returns it
RenderIoError ==
    /\ ui_pc = "render"
    /\ \E show_ok \in BOOLEAN : Dropped("io_error", show_ok)
    /\ UNCHANGED <<sleep_vars, ep_vars, dur_vars, st_vars>>

\* SystemTime::now panics
RenderPanics ==
    /\ ui_pc = "render"
    /\ \E show_ok \in BOOLEAN : Dropped("panic", show_ok)
    /\ UNCHANGED <<sleep_vars, ep_vars, dur_vars, st_vars>>

push_drift(drifts, idx, drift) == [drifts EXCEPT ![idx + 1] = drift]

\* drifts_idx never advanced
next_idx_stuck(idx, len) == idx

next_idx(idx, len) == (idx + 1) % len

\* the measurements so far: whether this one starts, continues or ends a run
\* of one measurement on a ring of zeros followed by exact ones
anomaly_after(elapsed) ==
    IF ui_anomaly # <<>> /\ elapsed = GOAL
    THEN <<ui_anomaly[1], ui_anomaly[2] + 1>>
    ELSE IF \A i \in 1..Len(drifts_ns) : drifts_ns[i] = 0
    THEN <<elapsed - GOAL, 0>>
    ELSE <<>>

\* UI::sleep, having measured elapsed
Sleep(elapsed) ==
    /\ ui_pc = "sleep"
    /\ LET drift == drift_of(elapsed)
           drifts == push_drift(drifts_ns, drifts_idx, drift)
           avg_drift == avg_drift_of(drifts)
           computed_sleep == computed_sleep_of(avg_drift)
       IN  /\ clk_time' = clk_time + elapsed
           /\ drifts_ns' = drifts
           /\ drifts_idx' = next_idx(drifts_idx, Len(drifts_ns))
           /\ ui_avg_drift' = avg_drift
           /\ ui_computed_sleep' = computed_sleep
           /\ IF try_into_ok(computed_sleep)
              THEN /\ ui_slept_ns' = computed_sleep
                   /\ ui_sleeps' = ui_sleeps + 1
                   /\ ui_pc' = "render"
                   /\ UNCHANGED <<ui_exit, ui_cursor, ui_dropped>>
              ELSE /\ UNCHANGED <<ui_slept_ns, ui_sleeps>>
                   /\ \E show_ok \in BOOLEAN : Dropped("sleep_panic", show_ok)
    /\ ui_cycles' = ui_cycles + 1
    /\ ui_exact' = (ui_exact /\ elapsed = GOAL)
    /\ ui_anomaly' = anomaly_after(elapsed)
    /\ UNCHANGED <<ep_vars, dur_vars, st_vars>>

Sleeps == \E elapsed \in ElapsedArgs : Sleep(elapsed)

\* a signal whose default action ends the process (main installs no handler):
\* nothing unwinds, no Drop runs
Signal ==
    /\ ui_pc \in {"new", "render", "sleep"}
    /\ ui_pc' = "ended"
    /\ ui_exit' = "signal"
    /\ UNCHANGED <<ui_cursor, ui_dropped, sleep_vars, ep_vars, dur_vars, st_vars>>

UiNext ==
    \/ UINew
    \/ UINewPanics
    \/ Render
    \/ RenderIoError
    \/ RenderPanics
    \/ Sleeps
    \/ Signal

----------------------------------------------------------------------------
(* Specifications: the clock program, and each part of the library.        *)

Init == UiInit /\ EpIdle /\ DurIdle /\ StIdle

Next == UiNext

Spec == Init /\ [][Next]_vars

InitEpochs == EpInit /\ DurIdle /\ StIdle /\ UiIdle

SpecEpochs == InitEpochs /\ [][EpNext]_vars

InitDuration == DurInit /\ EpIdle /\ StIdle /\ UiIdle

SpecDuration == InitDuration /\ [][DurNext]_vars

InitSystemTime == StInit /\ EpIdle /\ DurIdle /\ UiIdle

SpecSystemTime == InitSystemTime /\ [][StNext]_vars

----------------------------------------------------------------------------
(* The claims.  What a claim compares the code with is written here from   *)
(* the claim, apart from the operators above.                              *)

GregorianLeap(y) == (y % 4 = 0) /\ ((y % 100 # 0) \/ (y % 400 = 0))

\* the days of the years 1970 .. Y - 1
DaysBeforeYear(Y) == 365 * (Y - 1970) + Cardinality({y \in 1970..(Y - 1) : GregorianLeap(y)})

TwoTo64 == Lit(<<18, 446, 744, 073, 709, 551, 616>>)

Hundred == BigOf(100)

\* intervals * 10,000 + centivals * 100 + ticks
TickTotal(intervals, centivals, ticks) ==
    BigAdd(BigAdd(BigMul(intervals, BigOf(10000)), BigMul(centivals, Hundred)), ticks)

Abs(n) == IF n < 0 THEN 0 - n ELSE n

\* n / d truncated toward zero, d > 0
Truncated(n, d) == IF n < 0 THEN 0 - (Abs(n) \div d) ELSE n \div d

RingSum == drifts_ns[1] + drifts_ns[2] + drifts_ns[3] + drifts_ns[4]

NominalPeriod == 86400000

(* C1: the year resolver returns the greatest year Y with                  *)
(* yearToTicks(Y) <= ticks (in the table variant: the greatest year whose  *)
(* table entry is <= secs), so that the first tick of a year resolves to   *)
(* that year.                                                              *)
C1_ResolverReturnsGreatestYear ==
    /\ (ep_fn = "year_from_ticks" /\ ep_done) =>
            /\ BigLeq(year_to_ticks(ep_ret), ep_arg)
            /\ BigLess(ep_arg, year_to_ticks(ep_ret + 1))
    /\ (ep_fn = "year_from_secs" /\ ep_done /\ ep_ret \in TableYears) =>
            /\ BigLeq(table_year_to_seconds(ep_ret), ep_arg)
            /\ (ep_ret + 1) \in TableYears => BigLess(ep_arg, table_year_to_seconds(ep_ret + 1))

(* C2: year_to_days(Y) is the number of days of the years 1970 .. Y - 1,   *)
(* 365 each and 366 for a Gregorian leap year; year_to_seconds(Y) is that  *)
(* times 86,400 and year_to_ticks(Y) is that times 1,000,000.              *)
C2_YearToDaysIsGregorian ==
    ep_done =>
        /\ ep_fn = "year_to_days" => ep_ret = DaysBeforeYear(ep_arg)
        /\ ep_fn = "year_to_seconds" =>
                ep_ret = BigMul(BigOf(DaysBeforeYear(ep_arg)), BigOf(86400))
        /\ ep_fn = "year_to_ticks" =>
                ep_ret = BigMul(BigOf(DaysBeforeYear(ep_arg)), BigOf(1000000))

(* C3: Duration::time_components returns (ints, cents, tks) with cents and *)
(* tks below 100 and ints * 10,000 + cents * 100 + tks equal to the tick   *)
(* total of the arguments of Duration::new.                                *)
C3_ComponentsKeepTickTotal ==
    dur_pc = "decomposed" =>
        /\ BigLess(dur_comps[2], Hundred)
        /\ BigLess(dur_comps[3], Hundred)
        /\ TickTotal(dur_comps[1], dur_comps[2], dur_comps[3])
                = TickTotal(dur_args[1], dur_args[2], dur_args[3])

(* C4: Duration::new returns the Duration of exactly                       *)
(* intervals * 10,000 + centivals * 100 + ticks ticks when that total is   *)
(* below 2^64, and panics otherwise; it never returns a wrapped count.     *)
C4_NewIsExactOrPanics ==
    dur_pc # "new" =>
        LET total == TickTotal(dur_args[1], dur_args[2], dur_args[3])
        IN  IF BigLess(total, TwoTo64)
            THEN dur_pc # "panicked" /\ dur_ticks = total
            ELSE dur_pc = "panicked"

\* Duration::new panicked at its last addition: every earlier step fitted
C4_Witness ==
    /\ dur_pc = "panicked"
    /\ BigLess(BigAdd(BigMul(dur_args[1], BigOf(10000)), dur_args[3]), TwoTo64)
    /\ BigLess(BigMul(dur_args[2], Hundred), TwoTo64)
    /\ dur_args[2] # <<>>

(* C5: SystemTime::now (of c10time, the 625 / 54 form) yields the whole    *)
(* ticks since the epoch of the timespec it read:                          *)
(* floor((secs * 10^9 + nsecs) / 86,400,000).                              *)
C5_NowYieldsWholeTicks ==
    (st_crate = "c10time" /\ st_pc \in {"sampled", "shown"}) =>
        st_ticks = BigDiv(BigAdd(BigMul(st_secs, Lit(<<1, 000, 000, 000>>)), st_nsecs),
                          BigOf(86400000))

(* C6: date_components returns a decaday in 1..37 and a day in 1..10, its  *)
(* subtraction does not underflow, and time_components returns an          *)
(* interval, a centival and a tick in 0..99.                               *)
C6_ComponentsInRange ==
    (st_crate = "c10time" /\ st_pc = "shown") =>
        /\ ~st_date.underflow
        /\ BigLeq(BigOf(1), st_date.decaday) /\ BigLeq(st_date.decaday, BigOf(37))
        /\ BigLeq(BigOf(1), st_date.day) /\ BigLeq(st_date.day, BigOf(10))
        /\ \A i \in 1..3 : BigLess(st_time[i], Hundred)

\* the first tick of a year that follows 366 days: the last decaday
C6_Witness ==
    /\ st_crate = "c10time"
    /\ st_pc = "shown"
    /\ st_ticks = year_to_ticks(st_date.year + 1)
    /\ st_date.decaday = BigOf(37)
    /\ st_date.day = BigOf(7)

(* C7: a cycle whose nominalPeriod - averageDrift is negative ends the     *)
(* process by a panic without sleeping; every other cycle sleeps exactly   *)
(* nominalPeriod - averageDrift ns.  averageDrift is the truncated mean of *)
(* the 4 slots of the ring.                                                *)
C7_NegativeSleepIsFatal ==
    ui_cycles >= 1 =>
        LET sleep == NominalPeriod - Truncated(RingSum, 4)
        IN  IF sleep < 0
            THEN ui_exit = "sleep_panic" /\ ui_sleeps = ui_cycles - 1
            ELSE ui_exit # "sleep_panic" /\ ui_sleeps = ui_cycles /\ ui_slept_ns = sleep

C7_Witness == ui_exit = "sleep_panic" /\ ui_cycles >= 2

(* C8: whenever the process has ended with the cursor hidden by UI::new,   *)
(* Drop for UI has run.                                                    *)
C8_RestoredOnEveryExit == (ui_pc = "ended" /\ ui_cursor = "hidden") => ui_dropped

(* C9: after a measurement of nominalPeriod + X on a ring of zeros and K   *)
(* exact measurements, the average drift is X / 4 truncated while K < 4    *)
(* and 0 once K >= 4, and its magnitude is at most |X|.                    *)
C9_AnomalyDecays ==
    ui_anomaly # <<>> =>
        LET X == ui_anomaly[1]
            K == ui_anomaly[2]
        IN  /\ ui_avg_drift = (IF K < 4 THEN Truncated(X, 4) ELSE 0)
            /\ Abs(ui_avg_drift) <= Abs(X)

\* an undershoot that 4 does not divide, overwritten after 4 exact cycles
C9_Witness ==
    /\ ui_anomaly # <<>>
    /\ ui_anomaly[1] < 0
    /\ ui_anomaly[1] % 4 # 0
    /\ ui_anomaly[2] >= 4

(* C10: while every measurement has been exactly nominalPeriod, the        *)
(* average drift is 0 and every sleep is nominalPeriod ns.                 *)
C10_ExactStaysExact ==
    (ui_exact /\ ui_cycles >= 1) =>
        /\ ui_avg_drift = 0
        /\ ui_computed_sleep = NominalPeriod
        /\ ui_slept_ns = NominalPeriod
        /\ ui_sleeps = ui_cycles

C10_Witness == ui_exact /\ ui_cycles >= 5

====
